---- MODULE Spec2Model ----
(***************************************************************************)
(* Model of gitingest-mcp: the GitIngester class (ingest.py) and the three *)
(* MCP tool handlers (server.py).                                          *)
(*                                                                         *)
(* Text is modelled as a sequence of one-character strings, so that the    *)
(* regular expressions, strip(), split("/"), endswith() and the `in`       *)
(* substring test of the source are computed character by character.       *)
(* A Python Optional[str] is <<>> (None) or <<text>>.                      *)
(***************************************************************************)
EXTENDS Integers, Sequences, FiniteSets, TLC

(***************************************************************************)
(* Text helpers                                                            *)
(***************************************************************************)
NoneVal == <<>>

Some(t) == <<t>>

\* ={50}: the fixed delimiter width of the strict pattern and of every writer
DelimWidth == 50

\* ={10,}: the minimum delimiter width of the second pattern
MinDelimWidth == 10

Delim == [i \in 1..DelimWidth |-> "="]

FileColonSp == <<"F", "i", "l", "e", ":", " ">>

FileColon == <<"F", "i", "l", "e", ":">>

NL == <<"\n">>

\* Python's \s and str.strip() whitespace, restricted to the model's alphabet
IsSpace(c) == c \in {" ", "\n", "\t", "\r"}

Max(S) == CHOOSE x \in S : \A y \in S : y <= x

HasAt(s, i, lit) ==
    /\ i >= 1
    /\ i + Len(lit) - 1 <= Len(s)
    /\ \A k \in 1..Len(lit) : s[i + k - 1] = lit[k]

\* str.endswith
EndsWith(s, suffix) ==
    /\ Len(suffix) <= Len(s)
    /\ \A k \in 1..Len(suffix) : s[Len(s) - Len(suffix) + k] = suffix[k]

\* `needle in s`
Contains(s, needle) == \E i \in 1..(Len(s) - Len(needle) + 1) : HasAt(s, i, needle)

RECURSIVE EqRun(_, _)
\* length of the run of "=" starting at index i
EqRun(s, i) == IF i <= Len(s) /\ s[i] = "=" THEN 1 + EqRun(s, i + 1) ELSE 0

RECURSIVE LineEnd(_, _)
\* index of the first "\n" at or after i; Len(s) + 1 when there is none
LineEnd(s, i) == IF i > Len(s) \/ s[i] = "\n" THEN i ELSE LineEnd(s, i + 1)

RECURSIVE SpaceEnd(_, _)
\* index of the first non-whitespace character at or after i
SpaceEnd(s, i) == IF i > Len(s) \/ ~IsSpace(s[i]) THEN i ELSE SpaceEnd(s, i + 1)

RECURSIVE SpaceStart(_, _)
\* index of the last non-whitespace character at or before i; 0 when none
SpaceStart(s, i) == IF i < 1 \/ ~IsSpace(s[i]) THEN i ELSE SpaceStart(s, i - 1)

\* str.strip()
Strip(s) == SubSeq(s, SpaceEnd(s, 1), SpaceStart(s, Len(s)))

RECURSIVE LastSlash(_, _)
LastSlash(s, i) == IF i < 1 \/ s[i] = "/" THEN i ELSE LastSlash(s, i - 1)

\* s.split("/")[-1]
LastSegment(s) == SubSeq(s, LastSlash(s, Len(s)) + 1, Len(s))

\* str.lower() on the model's alphabet
LowerChar(c) ==
    CASE c = "A" -> "a"
      [] c = "B" -> "b"
      [] c = "C" -> "c"
      [] c = "D" -> "d"
      [] c = "E" -> "e"
      [] c = "F" -> "f"
      [] c = "G" -> "g"
      [] c = "H" -> "h"
      [] c = "I" -> "i"
      [] c = "J" -> "j"
      [] c = "K" -> "k"
      [] c = "L" -> "l"
      [] c = "M" -> "m"
      [] c = "N" -> "n"
      [] c = "O" -> "o"
      [] c = "P" -> "p"
      [] c = "Q" -> "q"
      [] c = "R" -> "r"
      [] c = "S" -> "s"
      [] c = "T" -> "t"
      [] c = "U" -> "u"
      [] c = "V" -> "v"
      [] c = "W" -> "w"
      [] c = "X" -> "x"
      [] c = "Y" -> "y"
      [] c = "Z" -> "z"
      [] OTHER -> c

Lower(s) == [i \in 1..Len(s) |-> LowerChar(s[i])]

RECURSIVE Dedup(_)
\* the keys of `result = {}; for path in file_paths: result[path] = None`,
\* in dict insertion order (first occurrence of each path)
Dedup(ps) ==
    IF ps = <<>> THEN <<>>
    ELSE LET front == Dedup(SubSeq(ps, 1, Len(ps) - 1))
             last == ps[Len(ps)]
         IN IF \E i \in 1..Len(front) : front[i] = last THEN front
            ELSE Append(front, last)

Range(f) == {f[i] : i \in DOMAIN f}

(***************************************************************************)
(* Content Assembler: the canonical delimited document                     *)
(***************************************************************************)
\* f"{'=' * 50}\nFile: {path}\n{'=' * 50}\n{content}"
Section(path, content) ==
    Delim \o NL \o FileColonSp \o path \o NL \o Delim \o NL \o content

RECURSIVE AssembleFrom(_, _, _)
AssembleFrom(keys, result, acc) ==
    IF keys = <<>> THEN acc
    ELSE LET path == Head(keys)
             content == result[path]
             next == IF content = NoneVal THEN acc
                     ELSE (IF acc # <<>> THEN acc \o NL \o NL ELSE acc)
                          \o Section(path, content[1])
         IN AssembleFrom(Tail(keys), result, next)

\* the concatenation loop; keys is the dict's key order
Assemble(keys, result) == AssembleFrom(keys, result, <<>>)

(***************************************************************************)
(* Digest Section Parser: the three header patterns of                     *)
(* _get_files_content_sync.  A match is [start, stop, g1, g2]: the first   *)
(* and last index of the whole match and of group 1; start = 0 is no match.*)
(***************************************************************************)
NoMatch == [start |-> 0, stop |-> 0, g1 |-> 0, g2 |-> 0]

\* r"={50}\nFile: ([^\n]+)\n={50}" tried at index i
Pattern1At(s, i) ==
    LET g == i + DelimWidth + 1 + Len(FileColonSp)
        e == LineEnd(s, g)
    IN IF /\ HasAt(s, i + DelimWidth, NL \o FileColonSp)
          /\ \A k \in 0..(DelimWidth - 1) : s[i + k] = "="
          /\ e > g
          /\ e + DelimWidth <= Len(s)
          /\ \A k \in 1..DelimWidth : s[e + k] = "="
       THEN [start |-> i, stop |-> e + DelimWidth, g1 |-> g, g2 |-> e - 1]
       ELSE NoMatch

\* r"={10,}\nFile: ([^\n]+)\n={10,}" tried at index i; both runs are greedy
Pattern2At(s, i) ==
    LET r == EqRun(s, i)
        g == i + r + 1 + Len(FileColonSp)
        e == LineEnd(s, g)
        r2 == EqRun(s, e + 1)
    IN IF /\ r >= MinDelimWidth
          /\ HasAt(s, i + r, NL \o FileColonSp)
          /\ e > g
          /\ e <= Len(s)
          /\ r2 >= MinDelimWidth
       THEN [start |-> i, stop |-> e + r2, g1 |-> g, g2 |-> e - 1]
       ELSE NoMatch

\* The ways r"\s*([^\n]+)\s*\n=" can match from index a (just after "File:")
\* when the whitespace run at a ends at m: the group is p..q-1 and the "\n"
\* before the closing run is at t.
Pattern3Ways(s, a, m) ==
    UNION {UNION {{[p |-> p, q |-> q, t |-> t] :
                      t \in {u \in q..SpaceEnd(s, q) :
                                /\ u + 1 <= Len(s)
                                /\ s[u] = "\n"
                                /\ s[u + 1] = "="}} :
                  q \in (p + 1)..LineEnd(s, p)} :
           p \in a..m}

\* r"=+\s*File:\s*([^\n]+)\s*\n=+" tried at index i.  Every quantifier is
\* greedy: the backtracking engine prefers the longest \s* before the group,
\* then the longest group, then the longest \s* after it.
Pattern3At(s, i) ==
    LET r == EqRun(s, i)
        k == SpaceEnd(s, i + r)
        a == k + Len(FileColon)
        m == SpaceEnd(s, a)
        ways == Pattern3Ways(s, a, m)
        bp == Max({w.p : w \in ways})
        bq == Max({w.q : w \in {v \in ways : v.p = bp}})
        bt == Max({w.t : w \in {v \in ways : v.p = bp /\ v.q = bq}})
    IN IF r >= 1 /\ HasAt(s, k, FileColon) /\ ways # {}
       THEN [start |-> i, stop |-> bt + EqRun(s, bt + 1), g1 |-> bp, g2 |-> bq - 1]
       ELSE NoMatch

PatternAt(pat, s, i) ==
    CASE pat = 1 -> Pattern1At(s, i)
      [] pat = 2 -> Pattern2At(s, i)
      [] OTHER -> Pattern3At(s, i)

Min(S) == CHOOSE x \in S : \A y \in S : x <= y

\* re.search(pattern, s[pos-1:]): the leftmost match starting at or after pos
\* (every pattern starts with a literal "=")
FindFrom(pat, s, pos) ==
    LET hits == {i \in pos..Len(s) : s[i] = "=" /\ PatternAt(pat, s, i).start # 0}
    IN IF hits = {} THEN NoMatch ELSE PatternAt(pat, s, Min(hits))

RECURSIVE FindIter(_, _, _)
\* re.finditer(pattern, s): the successive non-overlapping matches
FindIter(pat, s, pos) ==
    LET m == FindFrom(pat, s, pos)
    IN IF m.start = 0 THEN <<>> ELSE <<m>> \o FindIter(pat, s, m.stop + 1)

\* the three-way comparison of a unit's header with a requested path
UnitMatches(path, filename) ==
    \/ path = filename
    \/ EndsWith(filename, <<"/">> \o path)
    \/ LastSegment(path) = LastSegment(filename)

\* the unit's body taken as sliced, without the strip()
UnitContentUnstripped(s, ms, k) ==
    SubSeq(s, ms[k].stop + 1,
           IF k < Len(ms) THEN ms[k + 1].start - 1 ELSE Len(s))

\* body of the k-th unit: from match.end() to the start of the next match
\* (re.search from start_pos finds the match finditer yields next), stripped
UnitContent(s, ms, k) ==
    Strip(SubSeq(s, ms[k].stop + 1,
                 IF k < Len(ms) THEN ms[k + 1].start - 1 ELSE Len(s)))

UnitFilename(s, ms, k) == Strip(SubSeq(s, ms[k].g1, ms[k].g2))

RECURSIVE ScanUnitsFirstWins(_, _, _, _)
\* a scan that keeps the first unit matched for a path
ScanUnitsFirstWins(s, ms, k, result) ==
    IF k > Len(ms) THEN result
    ELSE LET filename == UnitFilename(s, ms, k)
             file_content == UnitContent(s, ms, k)
         IN ScanUnitsFirstWins(s, ms, k + 1,
                [path \in DOMAIN result |->
                    IF UnitMatches(path, filename) /\ result[path] = NoneVal
                    THEN Some(file_content)
                    ELSE result[path]])

RECURSIVE ScanUnits(_, _, _, _)
\* the linear scan over the units of the selected pattern
ScanUnits(s, ms, k, result) ==
    IF k > Len(ms) THEN result
    ELSE LET filename == UnitFilename(s, ms, k)
             file_content == UnitContent(s, ms, k)
         IN ScanUnits(s, ms, k + 1,
                [path \in DOMAIN result |->
                    IF UnitMatches(path, filename) THEN Some(file_content)
                    ELSE result[path]])

EmptyResult(file_paths) == [path \in Range(file_paths) |-> NoneVal]

RECURSIVE ScanPatterns(_, _, _)
\* `for pattern in patterns: ... if matched: break`: the first of the three
\* patterns with a match is the only one scanned
ScanPatterns(s, pat, result) ==
    LET ms == FindIter(pat, s, 1)
    IN IF ms # <<>> THEN ScanUnits(s, ms, 1, result)
       ELSE IF pat = 3 THEN result
       ELSE ScanPatterns(s, pat + 1, result)

\* the result mapping of _get_files_content_sync before it is concatenated
SyncResult(file_paths, content_str) ==
    ScanPatterns(content_str, 1, EmptyResult(file_paths))

\* a concatenation that writes a not-found marker for an unmatched path
SyncDocumentWithMarkers(file_paths, result) ==
    Assemble(Dedup(file_paths),
             [path \in DOMAIN result |->
                 IF result[path] = NoneVal THEN <<<<"F", "i", "l", "e", " ", "n", "o",
                                                   "t", " ", "f", "o", "u", "n", "d">>>>
                 ELSE result[path]])

\* the concatenation that ends _get_files_content_sync
SyncDocument(file_paths, result) == Assemble(Dedup(file_paths), result)

GetFilesContentSync(file_paths, content_str) ==
    SyncDocument(file_paths, SyncResult(file_paths, content_str))

NotFoundOrNoContent ==
    <<"F", "i", "l", "e", " ", "n", "o", "t", " ", "f", "o", "u", "n", "d", " ",
      "o", "r", " ", "n", "o", " ", "c", "o", "n", "t", "e", "n", "t", " ",
      "a", "v", "a", "i", "l", "a", "b", "l", "e">>

\* an empty-result path that, like the parser's concatenation, skips None
FormatEmptyResultSkippingNone(keys) ==
    Assemble(keys, [path \in Range(keys) |-> NoneVal])

\* every key gets a section with the marker, whatever its value
FormatEmptyResult(keys) ==
    Assemble(keys, [path \in Range(keys) |-> Some(NotFoundOrNoContent)])

(***************************************************************************)
(* Path Resolver: _find_file_in_tree.  A tree entry is [path, type].       *)
(***************************************************************************)
\* the test of the k-th loop on one entry of the listing
TierTest(k, item, requested_path) ==
    /\ item.type = "blob"
    /\ CASE k = 1 -> item.path = requested_path
         [] k = 2 -> LastSegment(item.path) = LastSegment(requested_path)
         [] k = 3 -> Lower(LastSegment(item.path)) = Lower(LastSegment(requested_path))
         [] OTHER -> EndsWith(item.path, requested_path)

\* index of the entry the k-th loop returns at: its first hit; 0 when none
FirstIndex(tree_data, k, requested_path) ==
    LET hits == {i \in 1..Len(tree_data) : TierTest(k, tree_data[i], requested_path)}
    IN IF hits = {} THEN 0 ELSE Min(hits)

\* the loops with the case-insensitive one run before the case-sensitive one
FindFileInTreeCaseFirst(has_data, tree_data, requested_path) ==
    LET i1 == FirstIndex(tree_data, 1, requested_path)
        i2 == FirstIndex(tree_data, 2, requested_path)
        i3 == FirstIndex(tree_data, 3, requested_path)
        i4 == FirstIndex(tree_data, 4, requested_path)
    IN IF ~has_data THEN NoneVal
       ELSE IF i1 # 0 THEN Some(tree_data[i1].path)
       ELSE IF i3 # 0 THEN Some(tree_data[i3].path)
       ELSE IF i2 # 0 THEN Some(tree_data[i2].path)
       ELSE IF i4 # 0 THEN Some(tree_data[i4].path)
       ELSE NoneVal

\* the four loops in source order, each returning at its first hit
FindFileInTree(has_data, tree_data, requested_path) ==
    LET i1 == FirstIndex(tree_data, 1, requested_path)
        i2 == FirstIndex(tree_data, 2, requested_path)
        i3 == FirstIndex(tree_data, 3, requested_path)
        i4 == FirstIndex(tree_data, 4, requested_path)
    IN IF ~has_data THEN NoneVal
       ELSE IF i1 # 0 THEN Some(tree_data[i1].path)
       ELSE IF i2 # 0 THEN Some(tree_data[i2].path)
       ELSE IF i3 # 0 THEN Some(tree_data[i3].path)
       ELSE IF i4 # 0 THEN Some(tree_data[i4].path)
       ELSE NoneVal

(***************************************************************************)
(* Literal texts of the source                                             *)
(***************************************************************************)
\* self.content on the structured path
ApiSentinel ==
    <<"C", "o", "n", "t", "e", "n", "t", " ", "a", "v", "a", "i", "l", "a",
      "b", "l", "e", " ", "v", "i", "a", " ", "G", "i", "t", "H", "u", "b",
      " ", "A", "P", "I", " ", "-", " ", "u", "s", "e", " ", "g", "i", "t",
      "_", "f", "i", "l", "e", "s", " ", "t", "o", " ", "f", "e", "t", "c",
      "h", " ", "s", "p", "e", "c", "i", "f", "i", "c", " ", "f", "i", "l",
      "e", "s">>

NotInTreeMarker ==
    <<"[", "F", "i", "l", "e", " ", "n", "o", "t", " ", "f", "o", "u", "n",
      "d", " ", "i", "n", " ", "r", "e", "p", "o", "s", "i", "t", "o", "r",
      "y", " ", "t", "r", "e", "e", ".", " ", "A", "v", "a", "i", "l", "a",
      "b", "l", "e", " ", "f", "i", "l", "e", "s", " ", "c", "a", "n", " ",
      "b", "e", " ", "s", "e", "e", "n", " ", "w", "i", "t", "h", " ", "g",
      "i", "t", "_", "t", "r", "e", "e", " ", "t", "o", "o", "l", "]">>

BinaryMarker ==
    <<"[", "B", "i", "n", "a", "r", "y", " ", "f", "i", "l", "e", " ", "-",
      " ", "c", "a", "n", "n", "o", "t", " ", "d", "i", "s", "p", "l", "a",
      "y", " ", "c", "o", "n", "t", "e", "n", "t", "]">>

UnsupportedMarker ==
    <<"[", "D", "i", "r", "e", "c", "t", "o", "r", "y", " ", "o", "r", " ",
      "u", "n", "s", "u", "p", "p", "o", "r", "t", "e", "d", " ", "f", "i",
      "l", "e", " ", "t", "y", "p", "e", "]">>

\* f"[File not found at path '{actual_path}' - HTTP {response.status_code}]"
HttpFailureMarker(actual_path, status) ==
    <<"[", "F", "i", "l", "e", " ", "n", "o", "t", " ", "f", "o", "u", "n",
      "d", " ", "a", "t", " ", "p", "a", "t", "h", " ", "'">>
    \o actual_path \o
    <<"'", " ", "-", " ", "H", "T", "T", "P", " ">>
    \o status \o <<"]">>

\* f"[Error fetching file: {str(e)}]"
OtherErrorMarker(msg) ==
    <<"[", "E", "r", "r", "o", "r", " ", "f", "e", "t", "c", "h", "i", "n",
      "g", " ", "f", "i", "l", "e", ":", " ">>
    \o msg \o <<"]">>

\* f"Failed to fetch files via GitHub API: {str(e)}"
FetchFilesFailure(msg) ==
    <<"F", "a", "i", "l", "e", "d", " ", "t", "o", " ", "f", "e", "t", "c",
      "h", " ", "f", "i", "l", "e", "s", " ", "v", "i", "a", " ", "G", "i",
      "t", "H", "u", "b", " ", "A", "P", "I", ":", " ">>
    \o msg

\* f"Error fetching files via GitHub API: {str(e)}"
AsyncFailure(msg) ==
    <<"E", "r", "r", "o", "r", " ", "f", "e", "t", "c", "h", "i", "n", "g",
      " ", "f", "i", "l", "e", "s", " ", "v", "i", "a", " ", "G", "i", "t",
      "H", "u", "b", " ", "A", "P", "I", ":", " ">>
    \o msg

\* the two needles of git_files' "was anything found" test
FileNotFoundNeedle ==
    <<"F", "i", "l", "e", " ", "n", "o", "t", " ", "f", "o", "u", "n", "d">>

BracketFileNotFoundNeedle ==
    <<"[", "F", "i", "l", "e", " ", "n", "o", "t", " ", "f", "o", "u", "n",
      "d">>

ReadmePath ==
    <<"R", "E", "A", "D", "M", "E", ".", "m", "d">>

ComponentsUi ==
    <<"c", "o", "m", "p", "o", "n", "e", "n", "t", "s", "/", "u", "i">>

RECURSIVE SplitComma(_)
\* file_paths.split(",")
SplitComma(s) ==
    LET hits == {i \in 1..Len(s) : s[i] = ","}
    IN IF hits = {} THEN <<s>>
       ELSE <<SubSeq(s, 1, Min(hits) - 1)>>
            \o SplitComma(SubSeq(s, Min(hits) + 1, Len(s)))

RECURSIVE KeepNonEmpty(_)
KeepNonEmpty(items) ==
    IF items = <<>> THEN <<>>
    ELSE (IF Strip(Head(items)) # <<>> THEN <<Strip(Head(items))>> ELSE <<>>)
         \o KeepNonEmpty(Tail(items))

\* [path.strip() for path in file_paths.split(",") if path.strip()]
FilePathsList(csv) == KeepNonEmpty(SplitComma(csv))

\* any(part.startswith(".") for part in path.split("/"))
HasHiddenPart(path) ==
    \E i \in 1..Len(path) : path[i] = "." /\ (i = 1 \/ path[i - 1] = "/")

\* _build_tree_structure: the displayed paths.  The display string is the
\* sorted paths joined by "\n"; the set of paths determines it.
BuildTreeStructure(tree_items) ==
    {tree_items[i].path : i \in
        {j \in 1..Len(tree_items) :
            /\ tree_items[j].type = "blob"
            /\ ~HasHiddenPart(tree_items[j].path)
            /\ ~Contains(tree_items[j].path, ComponentsUi)}}

\* len([item for item in tree_data.get("tree", []) if item["type"] == "blob"])
FileCount(tree_items) ==
    Cardinality({j \in 1..Len(tree_items) : tree_items[j].type = "blob"})

\* `if not self.content`
NoContent(cont) == IF cont = NoneVal THEN TRUE ELSE cont[1] = <<>>

\* whether get_content applies the Digest Section Parser
GetContentParses(cont) == ~NoContent(cont)

\* get_content / _get_files_content with a list of paths, in its two phases:
\* the result dict (all None when there is no content to scan) ...
ContentResult(cont, file_paths) ==
    IF NoContent(cont) THEN EmptyResult(file_paths)
    ELSE SyncResult(file_paths, cont[1])

\* ... and the document made of it: _format_empty_result(result), or the
\* concatenation of _get_files_content_sync
ContentDocument(cont, file_paths, result) ==
    IF NoContent(cont) THEN FormatEmptyResult(Dedup(file_paths))
    ELSE SyncDocument(file_paths, result)

GetContent(cont, file_paths) ==
    ContentDocument(cont, file_paths, ContentResult(cont, file_paths))

\* git_summary: `if readme_content and "README.md" in readme_content`
ReadmeAppended(readme_content) ==
    readme_content # <<>> /\ Contains(readme_content, ReadmePath)

\* git_files: the test that turns a document into the "none found" error
NothingFound(doc) ==
    \/ doc = <<>>
    \/ Contains(doc, FileNotFoundNeedle)
    \/ Contains(doc, BracketFileNotFoundNeedle)

ErrorResponse(msg) == [kind |-> "error", body |-> msg]

FilesResponse(doc) ==
    IF NothingFound(doc) THEN ErrorResponse("None of the requested files were found")
    ELSE [kind |-> "text", body |-> doc]

\* the handler's `except Exception as e` wrapper, per operation
FailureResponse(o) ==
    CASE o = "git_summary" -> ErrorResponse("Failed to get repository summary")
      [] o = "git_tree" -> ErrorResponse("Failed to get repository tree")
      [] OTHER -> ErrorResponse("Failed to get file content")

(***************************************************************************)
(* State                                                                   *)
(***************************************************************************)
VARIABLES
    pc,               \* position of the running handler / of the caller
    op,               \* the tool being served: git_summary, git_tree, git_files
    csv,              \* git_files' file_paths argument
    github_token,     \* whether GITHUB_TOKEN is set (self.github_token is truthy)
    url_parsed,       \* whether _parse_github_url set self.owner and self.repo
    is_private_repo,  \* self.is_private_repo
    summary,          \* self.summary (Optional)
    tree,             \* self.tree (Optional)
    content,          \* self.content (Optional)
    has_tree_data,    \* hasattr(self, "_tree_data")
    tree_data,        \* self._tree_data
    file_paths,       \* the list of requested paths
    result,           \* the result dict of the running extraction
    outcome,          \* per requested path, which branch recorded its result
    idx,              \* position of _fetch_files_via_api's loop
    files_content,    \* the document returned to git_files / to the caller
    response,         \* what the handler returns
    log,              \* the external calls issued and the chain steps taken
    raised,           \* the exception fetch_repo_data raised, if any
    units,            \* the (path, body) units a content blob was written from
    source,           \* how the content blob was written
    requested_path,   \* argument of _find_file_in_tree
    actual_path       \* its return value

vars == <<pc, op, csv, github_token, url_parsed, is_private_repo, summary, tree,
          content, has_tree_data, tree_data, file_paths, result, outcome, idx,
          files_content, response, log, raised, units, source, requested_path,
          actual_path>>

ingesterVars == <<is_private_repo, summary, tree, content, has_tree_data, tree_data>>

requestVars == <<op, csv, github_token, url_parsed>>

filesVars == <<file_paths, result, outcome, idx, files_content>>

pureVars == <<units, source, requested_path, actual_path>>

(***************************************************************************)
(* Inputs                                                                  *)
(***************************************************************************)
Pa == <<"a">>

Pb == <<"b">>

Pda == <<"d", "/", "a">>

Pzz == <<"z", "z">>

Bh == <<"h">>

Bw == <<"w">>

Unit(path, body) == [path |-> path, body |-> body]

Blob(path) == [path |-> path, type |-> "blob"]

Dir(path) == [path |-> path, type |-> "tree"]

\* One unit of a content blob as the digest collaborator writes it: delimiter
\* line, header line, delimiter line, body, blank separator.  Style 1 is the
\* canonical 50-wide form, style 2 a 12-wide delimiter, style 3 a short
\* delimiter with the header on the delimiter's line and loose whitespace.
DigestUnit(u, style) ==
    CASE style = 1 ->
            Delim \o NL \o FileColonSp \o u.path \o NL \o Delim \o NL
            \o u.body \o NL \o NL
      [] style = 2 ->
            [i \in 1..12 |-> "="] \o NL \o FileColonSp \o u.path \o NL
            \o [i \in 1..12 |-> "="] \o NL \o u.body \o NL \o NL
      [] OTHER ->
            <<"=", "=", " ">> \o FileColon \o u.path \o <<" ">> \o NL
            \o <<"=", "=">> \o NL \o u.body \o NL \o NL

RECURSIVE DigestDoc(_, _)
DigestDoc(us, style) ==
    IF us = <<>> THEN <<>> ELSE DigestUnit(Head(us), style) \o DigestDoc(Tail(us), style)

\* file_paths arguments of git_files
CsvInputs ==
    {<<>>, <<" ">>, <<",">>, Pa, Pzz, Pa \o <<",">> \o Pzz,
     Pa \o <<",", " ">> \o Pda, Pa \o <<",">> \o Pa}

\* content blobs the bulk digest fetch returns
DigestContents ==
    {<<>>,
     DigestDoc(<<Unit(Pa, Bh), Unit(ReadmePath, Bw)>>, 1),
     DigestDoc(<<Unit(Pda, Bw)>>, 2)}

\* recursive tree listings the hosting API returns
ApiTrees ==
    {<<>>,
     <<Blob(Pa)>>,
     <<Dir(<<"d">>), Blob(Pda), Blob(ReadmePath)>>}

\* texts of a decodable file, of a status line and of an exception
FileBodies == {Bh}

StatusCodes == {<<"4", "0", "4">>}

ErrorTexts == {<<"e", "r", "r">>}

Ops == {"git_summary", "git_tree", "git_files"}

Call(name, how) == [call |-> name, outcome |-> how]

(***************************************************************************)
(* GitIngester.__init__: the state right after construction, inside a      *)
(* handler that has just been called                                       *)
(***************************************************************************)
Constructed ==
    /\ is_private_repo = FALSE
    /\ summary = NoneVal
    /\ tree = NoneVal
    /\ content = NoneVal
    /\ has_tree_data = FALSE
    /\ tree_data = <<>>

Init ==
    /\ pc = "entry"
    /\ op \in Ops
    /\ csv \in (IF op = "git_files" THEN CsvInputs ELSE {<<>>})
    /\ github_token \in BOOLEAN
    /\ url_parsed \in BOOLEAN
    /\ Constructed
    /\ file_paths = <<>>
    /\ result = <<>>
    /\ outcome = <<>>
    /\ idx = 0
    /\ files_content = <<>>
    /\ response = NoneVal
    /\ log = <<>>
    /\ raised = "none"
    /\ units = <<>>
    /\ source = <<"none", 0>>
    /\ requested_path = <<>>
    /\ actual_path = NoneVal

(***************************************************************************)
(* server.py: handler entry                                                *)
(***************************************************************************)
\* git_files' two early returns; every handler then constructs the ingester
\* and awaits fetch_repo_data
HandlerEntry ==
    /\ pc = "entry"
    /\ IF op = "git_files" /\ Strip(csv) = <<>>
       THEN /\ response' = Some(ErrorResponse("No file paths provided"))
            /\ pc' = "done"
            /\ UNCHANGED file_paths
       ELSE IF op = "git_files" /\ FilePathsList(csv) = <<>>
       THEN /\ response' = Some(ErrorResponse("No valid file paths found"))
            /\ pc' = "done"
            /\ UNCHANGED file_paths
       ELSE /\ pc' = "probe"
            /\ file_paths' = (IF op = "git_files" THEN FilePathsList(csv) ELSE <<>>)
            /\ UNCHANGED response
    /\ UNCHANGED <<requestVars, ingesterVars, result, outcome, idx, files_content,
                   log, raised, pureVars>>

(***************************************************************************)
(* ingest.py: _check_if_private_repo                                       *)
(***************************************************************************)
\* `if not self.owner or not self.repo or not self.github_token: return False`
ProbeSkips == ~url_parsed \/ ~github_token

ProbeSkipped ==
    /\ pc = "probe"
    /\ ProbeSkips
    /\ is_private_repo' = FALSE
    /\ pc' = "bulk"
    /\ UNCHANGED <<requestVars, summary, tree, content, has_tree_data, tree_data,
                   filesVars, response, log, raised, pureVars>>

\* the probe short-circuiting a repository it found private straight to the
\* structured fetch
ProbeRequestShortCircuit ==
    /\ pc = "probe"
    /\ ~(~url_parsed \/ ~github_token)
    /\ \E how \in {"private", "public", "not_ok", "exception"} :
          /\ log' = Append(log, [call |-> "probe", outcome |-> how])
          /\ is_private_repo' = (how = "private")
          /\ pc' = (IF how = "private" THEN "api_repo" ELSE "bulk")
    /\ UNCHANGED <<requestVars, summary, tree, content, has_tree_data, tree_data,
                   filesVars, response, raised, pureVars>>

\* one authenticated metadata request; a non-200 answer and any exception
\* give False
ProbeRequest ==
    /\ pc = "probe"
    /\ ~ProbeSkips
    /\ \E how \in {"private", "public", "not_ok", "exception"} :
          /\ log' = Append(log, Call("probe", how))
          /\ is_private_repo' = (how = "private")
    /\ pc' = "bulk"
    /\ UNCHANGED <<requestVars, summary, tree, content, has_tree_data, tree_data,
                   filesVars, response, raised, pureVars>>

(***************************************************************************)
(* ingest.py: fetch_repo_data                                              *)
(***************************************************************************)
DigestSummary == [source |-> "digest", num_files |-> NoneVal]

\* ingest(self.url) returns; _parse_summary never raises
BulkOk ==
    /\ pc = "bulk"
    /\ \E blob \in DigestContents :
          /\ summary' = Some(DigestSummary)
          /\ tree' = Some({"digest tree"})
          /\ content' = Some(blob)
    /\ log' = Append(log, Call("ingest", "ok"))
    /\ pc' = "acquired"
    /\ UNCHANGED <<requestVars, is_private_repo, has_tree_data, tree_data,
                   filesVars, response, raised, pureVars>>

\* the fallback guard with the credential test left out
CanFallbackWithoutToken == url_parsed

\* `if self.github_token and self.owner and self.repo`
CanFallback == github_token /\ url_parsed

\* ingest(self.url) raises: fall back, or re-raise the same exception
BulkFail ==
    /\ pc = "bulk"
    /\ log' = Append(log, Call("ingest", "exception"))
    /\ IF CanFallback
       THEN pc' = "api_repo" /\ UNCHANGED raised
       ELSE pc' = "raised" /\ raised' = "bulk failure"
    /\ UNCHANGED <<requestVars, ingesterVars, filesVars, response, pureVars>>

(***************************************************************************)
(* ingest.py: _fetch_via_github_api                                        *)
(***************************************************************************)
\* the repository metadata request.  Its status is never read: a JSON error
\* body has no "default_branch" and "main" is used.  Only an exception (the
\* transport, or a body that is no JSON) ends the fetch.
ApiRepoAnswered ==
    /\ pc = "api_repo"
    /\ \E how \in {"ok", "http_error"} : log' = Append(log, Call("api repo", how))
    /\ pc' = "api_tree"
    /\ UNCHANGED <<requestVars, ingesterVars, filesVars, response, raised, pureVars>>

ApiRepoRaises ==
    /\ pc = "api_repo"
    /\ log' = Append(log, Call("api repo", "exception"))
    /\ pc' = "raised"
    /\ raised' = "Failed to fetch private repository via GitHub API"
    /\ UNCHANGED <<requestVars, ingesterVars, filesVars, response, pureVars>>

\* lines 94-108 for the listing tree_data.get("tree", [])
RecordStructured(tree_items) ==
    /\ summary' = Some([source |-> "api", num_files |-> Some(FileCount(tree_items))])
    /\ tree' = Some(BuildTreeStructure(tree_items))
    /\ content' = Some(ApiSentinel)
    /\ has_tree_data' = TRUE
    /\ tree_data' = tree_items

\* the recursive tree request answered with a listing
ApiTreeOk ==
    /\ pc = "api_tree"
    /\ \E tree_items \in ApiTrees : RecordStructured(tree_items)
    /\ log' = Append(log, Call("api tree", "ok"))
    /\ pc' = "acquired"
    /\ UNCHANGED <<requestVars, is_private_repo, filesVars, response, raised, pureVars>>

\* the recursive tree request answered with a non-success status and a JSON
\* error body: the status is never read and the body has no "tree"
ApiTreeHttpError ==
    /\ pc = "api_tree"
    /\ RecordStructured(<<>>)
    /\ log' = Append(log, Call("api tree", "http_error"))
    /\ pc' = "acquired"
    /\ UNCHANGED <<requestVars, is_private_repo, filesVars, response, raised, pureVars>>

ApiTreeRaises ==
    /\ pc = "api_tree"
    /\ log' = Append(log, Call("api tree", "exception"))
    /\ pc' = "raised"
    /\ raised' = "Failed to fetch private repository via GitHub API"
    /\ UNCHANGED <<requestVars, ingesterVars, filesVars, response, pureVars>>

\* the handler's except clause around fetch_repo_data
HandlerExcept ==
    /\ pc = "raised"
    /\ response' = Some(FailureResponse(op))
    /\ pc' = "done"
    /\ UNCHANGED <<requestVars, ingesterVars, filesVars, log, raised, pureVars>>

(***************************************************************************)
(* server.py: after fetch_repo_data returned                               *)
(***************************************************************************)
\* which chain step get_content takes, for the log
ContentStep(cont) ==
    IF GetContentParses(cont)
    THEN Call("digest parser", IF cont[1] = ApiSentinel THEN "sentinel" ELSE "blob")
    ELSE Call("empty result", "markers")

\* git_tree: return ingester.get_tree()
TreeRespond ==
    /\ pc = "acquired"
    /\ op = "git_tree"
    /\ response' = Some([kind |-> "tree", body |-> tree[1]])
    /\ pc' = "done"
    /\ UNCHANGED <<requestVars, ingesterVars, filesVars, log, raised, pureVars>>

\* git_summary: get_summary(), then get_content(["README.md"]) appended when
\* it is non-empty and names README.md
SummaryRespond ==
    /\ pc = "acquired"
    /\ op = "git_summary"
    /\ LET readme_content == GetContent(content, <<ReadmePath>>)
       IN response' = Some([kind |-> "summary",
                            body |-> [summary |-> summary[1],
                                      readme |-> IF ReadmeAppended(readme_content)
                                                 THEN readme_content ELSE <<>>]])
    /\ log' = Append(log, ContentStep(content))
    /\ pc' = "done"
    /\ UNCHANGED <<requestVars, ingesterVars, filesVars, raised, pureVars>>

\* `if hasattr(ingester, "_tree_data") and ingester.github_token`, in git_files
\* and again in _get_files_content_async
UsesApiChain == has_tree_data /\ github_token

\* git_files on the per-file API chain: _fetch_files_via_api starts
FilesStartApi ==
    /\ pc = "acquired"
    /\ op = "git_files"
    /\ UsesApiChain
    /\ result' = EmptyResult(file_paths)
    /\ outcome' = [path \in Range(file_paths) |-> "none"]
    /\ idx' = 1
    /\ pc' = "files"
    /\ UNCHANGED <<requestVars, ingesterVars, file_paths, files_content, response,
                   log, raised, pureVars>>

\* git_files on the digest chain: get_content(file_paths_list), then the
\* "was anything found" test
FilesFromContent ==
    /\ pc = "acquired"
    /\ op = "git_files"
    /\ ~UsesApiChain
    /\ result' = ContentResult(content, file_paths)
    /\ files_content' = ContentDocument(content, file_paths, result')
    /\ outcome' = [path \in Range(file_paths) |->
                      IF result'[path] = NoneVal THEN "none" ELSE "Found"]
    /\ response' = Some(FilesResponse(files_content'))
    /\ log' = Append(log, ContentStep(content))
    /\ pc' = "done"
    /\ UNCHANGED <<requestVars, ingesterVars, file_paths, idx, raised, pureVars>>

(***************************************************************************)
(* ingest.py: _fetch_files_via_api, one loop iteration per step            *)
(***************************************************************************)
InLoop == pc = "files" /\ idx <= Len(file_paths)

CurrentPath == file_paths[idx]

Resolved == FindFileInTree(has_tree_data, tree_data, CurrentPath)

\* `if not actual_path`
Unresolved == IF Resolved = NoneVal THEN TRUE ELSE Resolved[1] = <<>>

\* result[file_path] = ...; the loop moves on
Record(text, tag) ==
    /\ result' = [result EXCEPT ![CurrentPath] = Some(text)]
    /\ outcome' = [outcome EXCEPT ![CurrentPath] = tag]
    /\ idx' = idx + 1
    /\ UNCHANGED <<pc, requestVars, ingesterVars, file_paths, files_content,
                   response, raised, pureVars>>

FileNotInTree ==
    /\ InLoop
    /\ Unresolved
    /\ Record(NotInTreeMarker, "NotFoundInTree")
    /\ UNCHANGED log

\* status 200, type "file", payload decodes as UTF-8
FileFound ==
    /\ InLoop
    /\ ~Unresolved
    /\ \E body \in FileBodies : Record(body, "Found")
    /\ log' = Append(log, Call("file", "200 file"))

\* status 200, type "file", UnicodeDecodeError
FileBinary ==
    /\ InLoop
    /\ ~Unresolved
    /\ Record(BinaryMarker, "Binary")
    /\ log' = Append(log, Call("file", "200 binary"))

\* status 200, type is not "file"
FileUnsupported ==
    /\ InLoop
    /\ ~Unresolved
    /\ Record(UnsupportedMarker, "Unsupported")
    /\ log' = Append(log, Call("file", "200 other"))

\* any status but 200
FileHttpFailure ==
    /\ InLoop
    /\ ~Unresolved
    /\ \E status \in StatusCodes :
          Record(HttpFailureMarker(Resolved[1], status), "HttpFailure")
    /\ log' = Append(log, Call("file", "not 200"))

\* the per-file exception escaping the loop instead of being recorded
FileOtherErrorEscapes ==
    /\ InLoop
    /\ ~Unresolved
    /\ pc' = "raised"
    /\ raised' = "per-file failure"
    /\ log' = Append(log, Call("file", "exception"))
    /\ UNCHANGED <<requestVars, ingesterVars, filesVars, response, pureVars>>

\* any other exception while this file is handled
FileOtherError ==
    /\ InLoop
    /\ ~Unresolved
    /\ \E msg \in ErrorTexts : Record(OtherErrorMarker(msg), "OtherError")
    /\ log' = Append(log, Call("file", "exception"))

\* the loop is over: concatenate, return, and git_files tests the document
FilesFinish ==
    /\ pc = "files"
    /\ idx > Len(file_paths)
    /\ files_content' = Assemble(Dedup(file_paths), result)
    /\ response' = Some(FilesResponse(files_content'))
    /\ pc' = "done"
    /\ UNCHANGED <<requestVars, ingesterVars, file_paths, result, outcome, idx,
                   log, raised, pureVars>>

\* the client itself fails before the loop: _fetch_files_via_api raises,
\* _get_files_content_async returns the error text as the document
ApiClientFails ==
    /\ pc = "files"
    /\ idx = 1
    /\ \E msg \in ErrorTexts :
          files_content' = AsyncFailure(FetchFilesFailure(msg))
    /\ response' = Some(FilesResponse(files_content'))
    /\ pc' = "done"
    /\ UNCHANGED <<requestVars, ingesterVars, file_paths, result, outcome, idx,
                   log, raised, pureVars>>

Next ==
    \/ HandlerEntry
    \/ ProbeSkipped
    \/ ProbeRequest
    \/ BulkOk
    \/ BulkFail
    \/ ApiRepoAnswered
    \/ ApiRepoRaises
    \/ ApiTreeOk
    \/ ApiTreeHttpError
    \/ ApiTreeRaises
    \/ HandlerExcept
    \/ TreeRespond
    \/ SummaryRespond
    \/ FilesStartApi
    \/ FilesFromContent
    \/ FileNotInTree
    \/ FileFound
    \/ FileBinary
    \/ FileUnsupported
    \/ FileHttpFailure
    \/ FileOtherError
    \/ FilesFinish
    \/ ApiClientFails

Spec == Init /\ [][Next]_vars

(***************************************************************************)
(* The content functions on their own: a GitIngester whose content slot    *)
(* holds nothing, an empty blob, a digest blob or an assembled document,   *)
(* and a caller of get_content / _get_files_content_async                  *)
(***************************************************************************)
MaxUnits == 2

MaxPaths == 2

SeqsUpTo(S, n) == UNION {[1..k -> S] : k \in 0..n}

UnitPaths == {Pa, Pb, Pda}

UnitBodies == {Bh, Bw}

UnitSeqs == SeqsUpTo({Unit(path, body) : path \in UnitPaths, body \in UnitBodies}, MaxUnits)

PathLists == SeqsUpTo(UnitPaths, MaxPaths)

PathsOf(us) == [i \in 1..Len(us) |-> us[i].path]

Distinct(ps) == \A i, j \in 1..Len(ps) : i # j => ps[i] # ps[j]

\* the mapping path -> content a sequence of units with distinct paths stands for
MappingOf(us) ==
    [path \in Range(PathsOf(us)) |->
        Some((CHOOSE u \in Range(us) : u.path = path).body)]

InitContent ==
    /\ pc = "content_input"
    /\ op = "library"
    /\ csv = <<>>
    /\ github_token = FALSE
    /\ url_parsed = TRUE
    /\ Constructed
    /\ units \in UnitSeqs
    /\ source = <<"none", 0>>
    /\ file_paths = <<>>
    /\ result = <<>>
    /\ outcome = <<>>
    /\ idx = 0
    /\ files_content = <<>>
    /\ response = NoneVal
    /\ log = <<>>
    /\ raised = "none"
    /\ requested_path = <<>>
    /\ actual_path = NoneVal

\* the bulk fetch stored a blob written from `units` in one of the styles
LoadDigest ==
    /\ pc = "content_input"
    /\ \E style \in 1..3 :
          /\ content' = Some(DigestDoc(units, style))
          /\ source' = <<"digest", style>>
    /\ summary' = Some(DigestSummary)
    /\ tree' = Some({"digest tree"})
    /\ pc' = "loaded"
    /\ UNCHANGED <<requestVars, is_private_repo, has_tree_data, tree_data, filesVars,
                   response, log, raised, units, requested_path, actual_path>>

\* the content is a document the Content Assembler wrote for a mapping
LoadAssembled ==
    /\ pc = "content_input"
    /\ Distinct(PathsOf(units))
    /\ content' = Some(Assemble(PathsOf(units), MappingOf(units)))
    /\ source' = <<"assembler", 0>>
    /\ summary' = Some(DigestSummary)
    /\ tree' = Some({"digest tree"})
    /\ pc' = "loaded"
    /\ UNCHANGED <<requestVars, is_private_repo, has_tree_data, tree_data, filesVars,
                   response, log, raised, units, requested_path, actual_path>>

\* a content call with the list `paths`; both entry points run the same two
\* branches when the per-file API chain is not taken
Returned(paths, entry) ==
    /\ file_paths' = paths
    /\ result' = ContentResult(content, paths)
    /\ files_content' = ContentDocument(content, paths, result')
    /\ log' = <<Call(entry, "called"), ContentStep(content)>>
    /\ pc' = "returned"
    /\ UNCHANGED <<requestVars, ingesterVars, outcome, idx, response, raised, pureVars>>

\* get_content(file_paths) -> _get_files_content
CallGetContent ==
    /\ pc \in {"content_input", "loaded"}
    /\ \E paths \in PathLists : Returned(paths, "get_content")

\* _get_files_content_async(file_paths), not on the per-file API chain
CallGetFilesContentAsync ==
    /\ pc \in {"content_input", "loaded"}
    /\ ~UsesApiChain
    /\ \E paths \in PathLists : Returned(paths, "_get_files_content_async")

NextContent ==
    \/ LoadDigest
    \/ LoadAssembled
    \/ CallGetContent
    \/ CallGetFilesContentAsync

SpecContent == InitContent /\ [][NextContent]_vars

(***************************************************************************)
(* The Path Resolver on its own                                            *)
(***************************************************************************)
MaxTree == 3

TreeEntries ==
    {Blob(Pa), Blob(Pda), Blob(<<"e", "/", "A">>), Blob(<<"x", "a">>), Dir(Pa)}

ResolverRequests == {Pa, <<"A">>, Pda, <<"e", "/", "a">>}

InitResolver ==
    /\ pc = "resolver_input"
    /\ op = "library"
    /\ csv = <<>>
    /\ github_token = TRUE
    /\ url_parsed = TRUE
    /\ is_private_repo = FALSE
    /\ summary = NoneVal
    /\ tree = NoneVal
    /\ content = NoneVal
    /\ has_tree_data \in BOOLEAN
    /\ tree_data \in (IF has_tree_data THEN SeqsUpTo(TreeEntries, MaxTree) ELSE {<<>>})
    /\ units = <<>>
    /\ source = <<"none", 0>>
    /\ file_paths = <<>>
    /\ result = <<>>
    /\ outcome = <<>>
    /\ idx = 0
    /\ files_content = <<>>
    /\ response = NoneVal
    /\ log = <<>>
    /\ raised = "none"
    /\ requested_path = <<>>
    /\ actual_path = NoneVal

Resolve ==
    /\ pc = "resolver_input"
    /\ \E path \in ResolverRequests :
          /\ requested_path' = path
          /\ actual_path' = FindFileInTree(has_tree_data, tree_data, path)
    /\ pc' = "resolved"
    /\ UNCHANGED <<requestVars, ingesterVars, filesVars, response, log, raised,
                   units, source>>

NextResolver == Resolve

SpecResolver == InitResolver /\ [][NextResolver]_vars

(***************************************************************************)
(* Properties of the acquisition (fetch_repo_data), under Spec             *)
(***************************************************************************)
Calls(name) == {i \in DOMAIN log : log[i].call = name}

Logged(name, how) == \E i \in DOMAIN log : log[i] = [call |-> name, outcome |-> how]

NothingRecorded ==
    /\ summary = NoneVal
    /\ tree = NoneVal
    /\ content = NoneVal
    /\ ~has_tree_data

\* C1: with no credential the visibility probe gives false without any
\* network request, and after a bulk failure the structured fetch is never
\* started: the bulk failure itself is what reaches the caller and nothing
\* is recorded in the ingester.
C1_NoTokenNoFallback ==
    ~github_token =>
        /\ is_private_repo = FALSE
        /\ Calls("probe") = {}
        /\ Calls("api repo") = {}
        /\ Calls("api tree") = {}
        /\ pc \notin {"api_repo", "api_tree"}
        /\ Logged("ingest", "exception") =>
              /\ pc \in {"raised", "done"}
              /\ raised = "bulk failure"
              /\ NothingRecorded
              /\ pc = "done" => response = Some(FailureResponse(op))

C1_Witness ==
    /\ ~github_token
    /\ url_parsed
    /\ pc = "done"
    /\ Logged("ingest", "exception")
    /\ raised = "bulk failure"

\* git_files returned before constructing an ingester
EarlyReturn == op = "git_files" /\ pc = "done" /\ file_paths = <<>>

\* position of an acquisition call in the fixed order
StepRank(name) ==
    CASE name = "probe" -> 1
      [] name = "ingest" -> 2
      [] name = "api repo" -> 3
      [] name = "api tree" -> 4
      [] OTHER -> 5

\* C2: the acquisition calls come in the order probe, bulk fetch, then (only
\* after a bulk failure) the structured fetch's two requests; the bulk fetch
\* is attempted whatever the probe gave; no call is made twice and none is
\* made after a call of the structured fetch failed.
C2_FixedOrder ==
    /\ \A i, j \in DOMAIN log : i < j => StepRank(log[i].call) <= StepRank(log[j].call)
    /\ \A name \in {"probe", "ingest", "api repo", "api tree"} :
          Cardinality(Calls(name)) <= 1
    /\ (pc \notin {"entry", "probe", "bulk"} /\ ~EarlyReturn) => Calls("ingest") # {}
    /\ pc \in {"api_repo", "api_tree"} => Logged("ingest", "exception")
    /\ Calls("api repo") # {} => Logged("ingest", "exception")
    /\ Calls("api tree") # {} =>
          /\ Calls("api repo") # {}
          /\ ~Logged("api repo", "exception")
    /\ Logged("ingest", "ok") => Calls("api repo") = {} /\ Calls("api tree") = {}

C2_Witness ==
    /\ Logged("probe", "private")
    /\ Logged("ingest", "exception")
    /\ Logged("api tree", "ok")
    /\ pc = "acquired"

\* C3: a bulk failure with a token runs the structured fetch, and the
\* acquisition completes with a Structured result only if the tree listing
\* was obtained: a failed or non-success metadata or tree request ends in a
\* terminal error, never in a completed result.
C3_StructuredOnlyWithListing ==
    /\ (Logged("ingest", "exception") /\ github_token /\ url_parsed)
          => (pc = "api_repo" \/ Calls("api repo") # {})
    /\ has_tree_data => Logged("api tree", "ok")
    /\ (\/ Logged("api repo", "exception")
        \/ Logged("api repo", "http_error")
        \/ Logged("api tree", "exception")
        \/ Logged("api tree", "http_error"))
          => (pc \in {"api_tree", "raised", "done"} /\ NothingRecorded)

(***************************************************************************)
(* Properties of the content functions, under SpecContent                  *)
(***************************************************************************)
\* the document was written by the Content Assembler for the mapping `units`
\* stands for, and was then parsed for the same paths
RoundTripDone ==
    /\ pc = "returned"
    /\ source = <<"assembler", 0>>
    /\ file_paths = PathsOf(units)

DistinctFinalSegments(ps) ==
    \A i, j \in 1..Len(ps) : i # j => LastSegment(ps[i]) # LastSegment(ps[j])

\* C4 as stated: for every mapping of distinct paths, parsing the assembled
\* document for the same paths gives each path the content assembled for it.
C4_RoundTripDistinctPaths ==
    RoundTripDone =>
        \A i \in 1..Len(units) : result[units[i].path] = Some(units[i].body)

\* C4 as amended: the round trip holds for every mapping whose paths have
\* pairwise distinct final segments; the parser then returns each path's
\* assembled content, and re-assembling gives the document back.
C4_RoundTrip ==
    (RoundTripDone /\ DistinctFinalSegments(file_paths)) =>
        /\ \A i \in 1..Len(units) : result[units[i].path] = Some(units[i].body)
        /\ files_content = content[1]

C4_Witness ==
    /\ RoundTripDone
    /\ units = <<Unit(Pb, Bh), Unit(Pda, Bw)>>
    /\ result[Pb] = Some(Bh)
    /\ result[Pda] = Some(Bw)

\* the content source is empty or unavailable
EmptySource == content = NoneVal \/ content = Some(<<>>)

RECURSIVE MarkerSections(_)
\* one marker section per path, separated by blank lines
MarkerSections(ps) ==
    IF ps = <<>> THEN <<>>
    ELSE Delim \o NL \o FileColonSp \o Head(ps) \o NL \o Delim \o NL
         \o NotFoundOrNoContent
         \o (IF Tail(ps) = <<>> THEN <<>> ELSE NL \o NL \o MarkerSections(Tail(ps)))

\* C8: with an empty or unavailable content source and a non-empty list of
\* paths, the returned document is never empty and is exactly one marker
\* section 'File not found or no content available' per requested path, in
\* request order.
C8_EmptyContentMarkers ==
    (pc = "returned" /\ EmptySource /\ file_paths # <<>>) =>
        /\ files_content # <<>>
        /\ files_content = MarkerSections(Dedup(file_paths))
        /\ \A i \in 1..Len(file_paths) :
              Contains(files_content,
                       FileColonSp \o file_paths[i] \o NL \o Delim \o NL
                       \o NotFoundOrNoContent)

C8_Witness ==
    /\ pc = "returned"
    /\ content = NoneVal
    /\ file_paths = <<Pa, Pb>>
    /\ files_content = MarkerSections(<<Pa, Pb>>)

\* a requested path matches the header of some unit of the blob
MatchesSomeUnit(path) ==
    \E i \in 1..Len(units) :
        \/ units[i].path = path
        \/ EndsWith(units[i].path, <<"/">> \o path)
        \/ LastSegment(units[i].path) = LastSegment(path)

\* the returned document has a section headed by the path
HasSection(path) ==
    Contains(files_content, Delim \o NL \o FileColonSp \o path \o NL \o Delim \o NL)

\* C9: with a non-empty blob the parser's output has a section for exactly
\* the requested paths that matched a unit, and neither a section nor a
\* not-found marker for a path that matched none.
C9_ParserOmission ==
    (pc = "returned" /\ ~EmptySource) =>
        /\ \A path \in Range(file_paths) :
              /\ HasSection(path) <=> MatchesSomeUnit(path)
              /\ (result[path] # NoneVal) <=> MatchesSomeUnit(path)
        /\ ~Contains(files_content, FileNotFoundNeedle)
        /\ ~Contains(files_content, NotFoundOrNoContent)

C9_Witness ==
    /\ pc = "returned"
    /\ source = <<"digest", 1>>
    /\ units = <<Unit(Pa, Bh)>>
    /\ file_paths = <<Pa, Pb>>
    /\ files_content = Delim \o NL \o FileColonSp \o Pa \o NL \o Delim \o NL \o Bh

\* the units of the blob, by position, whose header matches the path: equal
\* to it, ending with "/" + path, or with the same final segment
MatchingUnits(path) ==
    {i \in 1..Len(units) :
        \/ units[i].path = path
        \/ \E n \in 1..Len(units[i].path) :
              /\ units[i].path[n] = "/"
              /\ SubSeq(units[i].path, n + 1, Len(units[i].path)) = path
        \/ LastSegment(units[i].path) = LastSegment(path)}

\* C11: in the scan of a non-empty blob, a requested path matched by several
\* units gets the body of the last of them in blob order: a later match of
\* any kind overwrites an earlier one, an earlier exact match included.
C11_LastMatchWins ==
    (pc = "returned" /\ ~EmptySource) =>
        \A path \in Range(file_paths) :
            MatchingUnits(path) # {} =>
                LET last == CHOOSE i \in MatchingUnits(path) :
                                \A j \in MatchingUnits(path) : j <= i
                IN /\ result[path] = Some(units[last].body)
                   /\ Contains(files_content, Section(path, units[last].body))

\* an exact match for "a" is overwritten by the later unit "d/a"
C11_Witness ==
    /\ pc = "returned"
    /\ source = <<"digest", 1>>
    /\ units = <<Unit(Pa, Bh), Unit(Pda, Bw)>>
    /\ file_paths = <<Pa>>
    /\ result[Pa] = Some(Bw)
    /\ files_content = Section(Pa, Bw)

(***************************************************************************)
(* Properties of the Path Resolver, under SpecResolver                     *)
(***************************************************************************)
\* the file entries of the listing that match the request at tier k
TierHits(k) ==
    {i \in 1..Len(tree_data) :
        /\ tree_data[i].type = "blob"
        /\ CASE k = 1 -> tree_data[i].path = requested_path
             [] k = 2 -> LastSegment(tree_data[i].path) = LastSegment(requested_path)
             [] k = 3 -> Lower(LastSegment(tree_data[i].path))
                            = Lower(LastSegment(requested_path))
             [] OTHER -> \E n \in 0..Len(tree_data[i].path) :
                            SubSeq(tree_data[i].path, n + 1, Len(tree_data[i].path))
                               = requested_path}

MatchingTiers == {k \in 1..4 : TierHits(k) # {}}

\* C5: the resolver returns the first file entry, in listing order, of the
\* lowest-numbered tier that has a match, and absent exactly when no tier
\* has one.
C5_TieredFirstMatch ==
    (pc = "resolved" /\ has_tree_data) =>
        IF MatchingTiers = {} THEN actual_path = NoneVal
        ELSE actual_path = Some(tree_data[Min(TierHits(Min(MatchingTiers)))].path)

C5_Witness ==
    /\ pc = "resolved"
    /\ requested_path = <<"e", "/", "a">>
    /\ tree_data = <<Blob(<<"e", "/", "A">>), Blob(Pda), Blob(Pa)>>
    /\ actual_path = Some(Pda)

(***************************************************************************)
(* Properties of git_files and git_summary, under Spec                     *)
(***************************************************************************)
NoneFoundError == Some(ErrorResponse("None of the requested files were found"))

FoundPaths == {path \in Range(file_paths) : outcome[path] = "Found"}

\* git_files has answered after a successful acquisition
FilesAnswered ==
    /\ op = "git_files"
    /\ pc = "done"
    /\ raised = "none"
    /\ file_paths # <<>>

\* C6: after a successful acquisition git_files answers with the 'none of
\* the requested files were found' error only when no requested file was
\* found; when at least one was found it answers with the document holding
\* that file's section, on the digest path and on the per-file API path.
C6_ErrorOnlyWhenNoneFound ==
    (FilesAnswered /\ FoundPaths # {}) =>
        /\ response # NoneFoundError
        /\ response[1].kind = "text"
        /\ \A path \in FoundPaths :
              Contains(response[1].body,
                       Delim \o NL \o FileColonSp \o path \o NL \o Delim \o NL
                       \o result[path][1])

\* the per-file loop has run (its index starts at 1)
OnApiChain == idx >= 1

RECURSIVE SectionsLen(_)
\* length of a document of one section per path of ps
SectionsLen(ps) ==
    IF ps = <<>> THEN 0
    ELSE Len(Section(Head(ps), result[Head(ps)][1]))
         + (IF Tail(ps) = <<>> THEN 0 ELSE 2 + SectionsLen(Tail(ps)))

\* every path the loop has passed has its outcome; a finished loop has
\* passed them all and returned one section per distinct path; nothing is
\* raised out of the batch
C7_Recorded ==
    OnApiChain =>
        /\ pc \in {"files", "done"}
        /\ raised = "none"
        /\ \A i \in 1..(idx - 1) :
              /\ outcome[file_paths[i]] # "none"
              /\ result[file_paths[i]] # NoneVal
        /\ (pc = "done" /\ idx > 1) =>
              /\ idx = Len(file_paths) + 1
              /\ response # Some(FailureResponse(op))
              /\ \A path \in Range(file_paths) :
                    Contains(files_content, Section(path, result[path][1]))
              /\ Len(files_content) = SectionsLen(Dedup(file_paths))

\* a step of the loop records the current path only and moves to the next;
\* leaving the loop changes no recorded outcome
C7_Step ==
    /\ (InLoop /\ pc' = "files") =>
          /\ idx' = idx + 1
          /\ outcome'[CurrentPath] # "none"
          /\ \A path \in Range(file_paths) \ {CurrentPath} :
                /\ result'[path] = result[path]
                /\ outcome'[path] = outcome[path]
    /\ pc = "files" =>
          /\ pc' \in {"files", "done"}
          /\ file_paths' = file_paths
    /\ (pc = "files" /\ pc' = "done") =>
          /\ result' = result
          /\ outcome' = outcome

\* C7: the per-file loop processes every requested path, records exactly one
\* outcome for each distinct path and returns one section per path; a path's
\* failure changes no other path's outcome and is never raised out of the
\* batch.
C7_PerFileIsolation == []C7_Recorded /\ [][C7_Step]_vars

C7_Witness ==
    /\ pc = "done"
    /\ OnApiChain
    /\ \E p, q \in Range(file_paths) :
          /\ outcome[p] = "OtherError"
          /\ outcome[q] = "Found"
          /\ Contains(files_content, Section(q, result[q][1]))

\* C10: the chain that resolves file content follows the acquisition path:
\* after a Digest result no per-file request is issued; after a Structured
\* result the Digest Section Parser is never applied to the sentinel content,
\* for git_files and for the README lookup of git_summary.
C10_ChainFollowsAcquisition ==
    /\ Logged("ingest", "ok") => Calls("file") = {}
    /\ ~has_tree_data => ~OnApiChain
    /\ has_tree_data => ~Logged("digest parser", "sentinel")

====
